---------------------------- MODULE Spec2Model ----------------------------
(***************************************************************************)
(* A model of the account views of lovevn/connect (accounts/views.py):     *)
(* request_invitation, activate_account, profile_settings (with            *)
(* save_paired_items and match_link_to_brand), update_account and          *)
(* close_account, over the persisted tables they read and write.           *)
(*                                                                         *)
(* Three specifications are stated over the same variables:                *)
(*   Spec      every request is handled whole, one request at a time;      *)
(*   SpecConc  activation and profile requests overlap: each is a chain    *)
(*             of the separate database statements the view issues;        *)
(*   SpecFn    save_skills, save_links and match_link_to_brand applied     *)
(*             as functions to every bounded formset and link table.       *)
(***************************************************************************)
EXTENDS Integers, Sequences, FiniteSets, TLC

VARIABLES
    users,        \* the CustomUser table: a sequence, the primary key is the index
    skills,       \* the UserSkill table, rows in insertion order
    links,        \* the UserLink table, rows in insertion order
    sessions,     \* per client (browser), the pk of the logged-in user, 0 for none
    nextId,       \* the auto-increment counters of the UserSkill and UserLink tables
    clock,        \* requests begun so far; the value now() returns
    activations,  \* history: the pk of every activation update saved, in order
    inflight,     \* SpecConc: the requests being handled, per request slot
    last          \* the most recent response: view, inputs, outcome, side effects

vars == <<users, skills, links, sessions, nextId, clock, activations, inflight, last>>

-----------------------------------------------------------------------------
(* Bounds of the model *)

MaxRequests == 4
MaxModerators == 2
MaxFnRows == 2
MaxFnSteps == 2
MaxInflight == 2

-----------------------------------------------------------------------------
(* Input alphabets *)

Clients == {"c1", "c2"}
Methods == {"GET", "POST"}
Emails == {"a@example.com", "b@example.com"}
NoUser == 0
NoBrand == ""

SeqsUpTo(S, n) == UNION {[1..k -> S] : k \in 0..n}

Range(s) == {s[i] : i \in 1..Len(s)}

\* make_password: a salted hash, here a tagged value distinct from the raw password
make_password(raw) == <<"pbkdf2", raw>>

check_password(raw, encoded) == encoded = make_password(raw)

UnusablePassword == <<"!", "">>

\* the activation token create_inactive_user issues: fresh for every account
Token(pk) == <<"token", pk>>

\* the tokens a request may present: every issued one and one never issued
TokenInputs(us) == {Token(pk) : pk \in 1..(Len(us) + 1)}

-----------------------------------------------------------------------------
(* The database context a view runs in, with the side effects it performs   *)
(* appended to ops in the order the code performs them.                     *)

Ctx ==
    [users |-> users, skills |-> skills, links |-> links, sessions |-> sessions,
     nextId |-> nextId, activations |-> activations, ops |-> <<>>, sent |-> <<>>]

Op(d, name) == [d EXCEPT !.ops = Append(@, name)]

\* Model.save() on a user object: every field of the in-memory object is written
save_user(d, pk, obj) ==
    Op([d EXCEPT !.users = IF pk > Len(@) THEN Append(@, obj) ELSE [@ EXCEPT ![pk] = obj]],
       "save")

\* django.contrib.auth.login / logout on the requesting client's session
login(d, client, pk) == Op([d EXCEPT !.sessions[client] = pk], "login")

logout(d, client) == Op([d EXCEPT !.sessions[client] = NoUser], "logout")

\* ModelBackend.authenticate: the user with that email whose password checks
authenticate(us, email, raw) ==
    LET hits == {pk \in 1..Len(us) : us[pk].email = email /\ check_password(raw, us[pk].password)}
    IN  IF hits = {} THEN NoUser ELSE CHOOSE pk \in hits : TRUE

\* get_object_or_404(User, auth_token=token): the pk, or NoUser for Http404
get_object_or_404(us, token) ==
    LET hits == {pk \in 1..Len(us) : us[pk].auth_token = token}
    IN  IF hits = {} THEN NoUser ELSE CHOOSE pk \in hits : TRUE

EmailRegistered(us, email) == \E pk \in 1..Len(us) : us[pk].email = email

\* request.user as the session middleware resolves it
RequestUser(d, client) == d.sessions[client]

-----------------------------------------------------------------------------
(* Accounts *)

\* connect.accounts.utils.create_inactive_user: an inactive account with a fresh
\* token, not yet saved with the application details
create_inactive_user(pk, email, first_name, last_name) ==
    [email |-> email, first_name |-> first_name, last_name |-> last_name,
     password |-> UnusablePassword, auth_token |-> Token(pk),
     auth_token_is_used |-> FALSE, is_active |-> FALSE, is_closed |-> FALSE,
     registration_method |-> "INV", applied_datetime |-> 0,
     application_comments |-> "", activated_datetime |-> 0,
     bio |-> "", roles |-> "", is_moderator |-> FALSE]

\* a moderator account that exists before any request is made
Moderator(pk, active) ==
    [create_inactive_user(pk, IF pk = 1 THEN "mod1@example.com" ELSE
                              IF pk = 2 THEN "mod2@example.com" ELSE "mod3@example.com",
                          "Mod", "Erator")
        EXCEPT !.password = make_password("modpw"), !.auth_token_is_used = TRUE,
               !.is_active = active, !.is_moderator = TRUE]

NoRequest ==
    [view |-> "none", client |-> "", user |-> NoUser, method |-> "", outcome |-> "",
     ops |-> <<>>, sent |-> <<>>, valid |-> FALSE, input |-> <<>>, visited |-> <<>>]

Idle == [pc |-> "idle", view |-> "none"]

Init ==
    /\ \E active \in 0..MaxModerators :
          users = [pk \in 1..MaxModerators |-> Moderator(pk, pk <= active)]
    /\ skills = <<>>
    /\ links = <<>>
    /\ sessions = [c \in Clients |-> NoUser]
    /\ nextId = [skill |-> 1, link |-> 1]
    /\ clock = 0
    /\ activations = <<>>
    /\ inflight = [r \in 1..MaxInflight |-> Idle]
    /\ last = NoRequest

\* the response is sent: the context's tables become the database state
Commit(d) ==
    /\ users' = d.users
    /\ skills' = d.skills
    /\ links' = d.links
    /\ sessions' = d.sessions
    /\ nextId' = d.nextId
    /\ activations' = d.activations

Respond(d, view, client, pk, method, outcome, valid, input, visited) ==
    /\ Commit(d)
    /\ last' = [view |-> view, client |-> client, user |-> pk, method |-> method,
                outcome |-> outcome, ops |-> d.ops, sent |-> d.sent, valid |-> valid,
                input |-> input, visited |-> visited]

-----------------------------------------------------------------------------
(* request_invitation *)

\* RequestInvitationForm.is_valid: every field present and well formed, and the
\* email not registered yet
RequestInvitationForm_is_valid(us, form) ==
    /\ form.first_name # ""
    /\ form.last_name # ""
    /\ form.email \in Emails
    /\ ~EmailRegistered(us, form.email)

InvitationForms ==
    [email : Emails, first_name : {"Ann"}, last_name : {"Lee"}, comments : {"please"}]
    \cup {[email |-> "not-an-email", first_name |-> "Ann", last_name |-> "Lee",
           comments |-> "please"],
          [email |-> "a@example.com", first_name |-> "", last_name |-> "Lee",
           comments |-> ""]}

\* new_user with the application details the view adds before new_user.save()
RequestedUser(new_user, comments, now) ==
    [new_user EXCEPT !.registration_method = "REQ", !.applied_datetime = now,
                     !.application_comments = comments]

\* User.objects.filter(is_moderator=True, is_active=True), in pk order
ActiveModerators(us) ==
    SelectSeq([pk \in 1..Len(us) |-> pk], LAMBDA pk : us[pk].is_moderator /\ us[pk].is_active)

\* connect.utils.send_connect_email: one dispatch to the recipient; a failed
\* delivery is recorded and not surfaced to the caller
send_connect_email(d, recipient, undelivered) ==
    Op([d EXCEPT !.sent = Append(@, [to |-> recipient, delivered |-> recipient \notin undelivered])],
       "send")

\* mutant: a failed dispatch ends the loop
RECURSIVE NotifyUntilFailure(_, _, _)
NotifyUntilFailure(d, moderators, undelivered) ==
    IF moderators = <<>> THEN d
    ELSE IF Head(moderators) \in undelivered
         THEN send_connect_email(d, Head(moderators), undelivered)
         ELSE NotifyUntilFailure(send_connect_email(d, Head(moderators), undelivered),
                                 Tail(moderators), undelivered)

\* for moderator in moderators: send_connect_email(...)
RECURSIVE NotifyModerators(_, _, _)
NotifyModerators(d, moderators, undelivered) ==
    IF moderators = <<>> THEN d
    ELSE NotifyModerators(send_connect_email(d, Head(moderators), undelivered),
                          Tail(moderators), undelivered)

request_invitation_view(d, method, form, undelivered, now) ==
    IF method = "POST"
    THEN IF RequestInvitationForm_is_valid(d.users, form)
         THEN LET pk == Len(d.users) + 1
                  new_user == create_inactive_user(pk, form.email, form.first_name, form.last_name)
                  d1 == save_user(Op(d, "is_valid"), pk, new_user)
                  d2 == save_user(d1, pk, RequestedUser(new_user, form.comments, now))
                  d3 == NotifyModerators(d2, ActiveModerators(d2.users), undelivered)
              IN  [d |-> d3, pk |-> pk, outcome |-> "redirect:request-invitation-done", valid |-> TRUE]
         ELSE [d |-> Op(d, "is_valid"), pk |-> NoUser, outcome |-> "render:request_invitation", valid |-> FALSE]
    ELSE [d |-> d, pk |-> NoUser, outcome |-> "render:request_invitation", valid |-> FALSE]

request_invitation ==
    /\ clock < MaxRequests
    /\ \E method \in Methods, form \in InvitationForms, undelivered \in SUBSET (1..MaxModerators) :
          LET r == request_invitation_view(Ctx, method, form, undelivered, clock + 1)
          IN  Respond(r.d, "request_invitation", "", r.pk, method, r.outcome, r.valid,
                      <<form>>, <<>>)
    /\ clock' = clock + 1
    /\ UNCHANGED inflight

-----------------------------------------------------------------------------
(* activate_account *)

NoPost ==
    [present |-> FALSE, first_name |-> "", last_name |-> "", password |-> "",
     confirm_password |-> ""]

ActivationPosts ==
    {NoPost} \cup
    [present : {TRUE}, first_name : {"Ann", ""}, last_name : {"Lee"},
     password : {"secret123"}, confirm_password : {"secret123", "other"}]

\* ActivateAccountForm.is_valid: names and password present, confirmation equal
ActivateAccountForm_is_valid(post) ==
    /\ post.first_name # ""
    /\ post.last_name # ""
    /\ post.password # ""
    /\ post.confirm_password = post.password

\* mutant: the used check is dropped
TokenAlwaysUsable(user) == TRUE

\* if not user.auth_token_is_used
TokenUsable(user) == ~user.auth_token_is_used

\* the fields activate_account assigns before user.save()
ActivatedUser(user, post, now) ==
    [user EXCEPT !.first_name = post.first_name, !.last_name = post.last_name,
                 !.password = make_password(post.password), !.is_active = TRUE,
                 !.activated_datetime = now, !.auth_token_is_used = TRUE]

\* user.save(); authenticate(username=email, password=password); login(request, user)
ActivateSave(d, client, pk, obj, raw_password) ==
    LET d1 == save_user([d EXCEPT !.activations = Append(@, pk)], pk, obj)
        who == authenticate(d1.users, obj.email, raw_password)
        d2 == Op(d1, "authenticate")
    IN  IF who = NoUser
        THEN [d |-> d2, pk |-> pk, outcome |-> "500:login", valid |-> TRUE]
        ELSE [d |-> login(d2, client, who), pk |-> pk, outcome |-> "redirect:dashboard",
              valid |-> TRUE]

activate_account_view(d, client, token, post, now) ==
    LET pk == get_object_or_404(d.users, token)
    IN  IF pk = NoUser
        THEN [d |-> d, pk |-> NoUser, outcome |-> "404", valid |-> FALSE]
        ELSE IF TokenUsable(d.users[pk])
        THEN IF post.present
             THEN IF ActivateAccountForm_is_valid(post)
                  THEN ActivateSave(Op(d, "is_valid"), client, pk,
                                    ActivatedUser(d.users[pk], post, now), post.password)
                  ELSE [d |-> Op(d, "is_valid"), pk |-> pk,
                        outcome |-> "render:activate_account:form", valid |-> FALSE]
             ELSE [d |-> d, pk |-> pk, outcome |-> "render:activate_account:form",
                   valid |-> FALSE]
        ELSE [d |-> d, pk |-> pk, outcome |-> "render:activate_account:token_is_used",
              valid |-> post.present /\ ActivateAccountForm_is_valid(post)]

activate_account ==
    /\ clock < MaxRequests
    /\ \E client \in Clients, token \in TokenInputs(users), post \in ActivationPosts :
          LET r == activate_account_view(Ctx, client, token, post, clock + 1)
          IN  Respond(r.d, "activate_account", client, r.pk,
                      IF post.present THEN "POST" ELSE "GET", r.outcome, r.valid, <<>>, <<>>)
    /\ clock' = clock + 1
    /\ UNCHANGED inflight

-----------------------------------------------------------------------------
(* login_required *)

\* mutant: an anonymous request is refused with PermissionDenied
login_or_denied(d, client, response) ==
    IF RequestUser(d, client) # NoUser
    THEN response
    ELSE [d |-> d, pk |-> NoUser, outcome |-> "403:PermissionDenied", valid |-> FALSE]

\* @login_required: an anonymous request is redirected to the login page and the
\* view is not run
login_required(d, client, response) ==
    IF RequestUser(d, client) # NoUser
    THEN response
    ELSE [d |-> d, pk |-> NoUser, outcome |-> "redirect:login", valid |-> FALSE]

-----------------------------------------------------------------------------
(* save_paired_items, save_skills, save_links *)

\* URLs are sequences of tokens: scheme, "://", the labels of the network
\* location joined by ".", then the path
UrlTwitter == <<"http", "://", "twitter", ".", "com", "/", "x">>
UrlWww == <<"https", "://", "www", ".", "twitter", ".", "com">>
UrlOther == <<"http", "://", "example", ".", "org", "/", "twitter", ".", "com">>
NoUrl == <<>>

\* the falsy value of a form field
EmptyOf(name) == IF name = "url" THEN NoUrl ELSE ""

\* Model(user=user)
NewInstance(Model, pk) ==
    IF Model = "UserSkill"
    THEN [id |-> 0, user |-> pk, skill |-> "", proficiency |-> ""]
    ELSE [id |-> 0, user |-> pk, anchor |-> "", url |-> NoUrl, icon |-> NoBrand]

\* mutant: "if item or counterpart"
EitherPresent(form, item_name, counterpart_name) ==
    form[item_name] # EmptyOf(item_name) \/ form[counterpart_name] # EmptyOf(counterpart_name)

\* if item and counterpart
BothPresent(form, item_name, counterpart_name) ==
    form[item_name] # EmptyOf(item_name) /\ form[counterpart_name] # EmptyOf(counterpart_name)

\* the loop over the formset that builds paired_items
RECURSIVE PairedItems(_, _, _, _, _)
PairedItems(pk, formset, Model, item_name, counterpart_name) ==
    IF formset = <<>> THEN <<>>
    ELSE LET form == Head(formset)
             rest == PairedItems(pk, Tail(formset), Model, item_name, counterpart_name)
         IN  IF BothPresent(form, item_name, counterpart_name)
             THEN <<[NewInstance(Model, pk) EXCEPT ![item_name] = form[item_name],
                                                   ![counterpart_name] = form[counterpart_name]]>>
                  \o rest
             ELSE rest

TableOf(Model) == IF Model = "UserSkill" THEN "skills" ELSE "links"
CounterOf(Model) == IF Model = "UserSkill" THEN "skill" ELSE "link"

\* Model.objects.filter(user=user).delete()
delete_for_user(d, Model, pk) ==
    Op([d EXCEPT ![TableOf(Model)] = SelectSeq(@, LAMBDA row : row.user # pk)], "delete")

\* Model.objects.bulk_create(paired_items): the rows are appended in order and the
\* table's auto-increment counter numbers them
bulk_create(d, Model, paired_items) ==
    LET first == d.nextId[CounterOf(Model)]
        rows == [i \in 1..Len(paired_items) |-> [paired_items[i] EXCEPT !.id = first + i - 1]]
    IN  Op([d EXCEPT ![TableOf(Model)] = @ \o rows,
                     !.nextId[CounterOf(Model)] = first + Len(paired_items)],
           "bulk_create")

save_paired_items(d, pk, formset, Model, item_name, counterpart_name) ==
    bulk_create(delete_for_user(d, Model, pk), Model,
                PairedItems(pk, formset, Model, item_name, counterpart_name))

save_skills(d, pk, formset) ==
    save_paired_items(d, pk, formset, "UserSkill", "skill", "proficiency")

save_links(d, pk, formset) ==
    save_paired_items(d, pk, formset, "UserLink", "anchor", "url")

-----------------------------------------------------------------------------
(* match_link_to_brand *)

\* the LinkBrand catalog: domains as sequences of labels
LinkBrands ==
    {[domain |-> <<"twitter", ".", "com">>, name |-> "Twitter"],
     [domain |-> <<"github", ".", "com">>, name |-> "GitHub"]}

\* urlsplit(url).netloc: what lies between "://" and the next "/", "?" or "#"
netloc(url) ==
    IF Len(url) >= 2 /\ url[2] = "://"
    THEN LET stops == {i \in 3..Len(url) : url[i] \in {"/", "?", "#"}}
             end == IF stops = {} THEN Len(url) + 1
                    ELSE CHOOSE i \in stops : \A j \in stops : i <= j
         IN  SubSeq(url, 3, end - 1)
    ELSE <<>>

\* the filter of LinkBrand.objects.get(domain=domain)
DomainMatches(brand, domain) == brand.domain = domain

\* LinkBrand.objects.get(domain=domain): the brand, or the exception raised
LinkBrand_get(domain, fault) ==
    LET hits == {b \in LinkBrands : DomainMatches(b, domain)}
    IN  IF fault = "get" THEN [exc |-> "DatabaseError", brand |-> NoBrand]
        ELSE IF hits = {} THEN [exc |-> "DoesNotExist", brand |-> NoBrand]
        ELSE IF Cardinality(hits) > 1 THEN [exc |-> "MultipleObjectsReturned", brand |-> NoBrand]
        ELSE [exc |-> "", brand |-> (CHOOSE b \in hits : TRUE).name]

\* link.save(): the row with the object's id is updated, or inserted if it is gone
save_link(d, link) ==
    Op([d EXCEPT !.links =
            IF \E i \in 1..Len(@) : @[i].id = link.id
            THEN [i \in 1..Len(@) |-> IF @[i].id = link.id THEN link ELSE @[i]]
            ELSE Append(@, link)],
       "save")

\* mutant: "except LinkBrand.DoesNotExist"
SwallowsOnlyDoesNotExist(exc) == exc = "DoesNotExist"

\* the bare except: every exception raised in the try block is swallowed
Swallowed(exc) == TRUE

FaultKinds == {"none", "get", "save"}

\* the body of the for loop for one link: the context after it and the exception
\* that leaves it, "" for none
MatchOne(d, link, fault) ==
    LET got == LinkBrand_get(netloc(link.url), fault)
        exc == IF got.exc # "" THEN got.exc
               ELSE IF fault = "save" THEN "DatabaseError" ELSE ""
    IN  [d |-> IF exc = "" THEN save_link(d, [link EXCEPT !.icon = got.brand]) ELSE d,
         exc |-> IF exc # "" /\ ~Swallowed(exc) THEN exc ELSE ""]

\* for link in user_links: ...; return user_links
RECURSIVE MatchLoop(_, _, _, _, _)
MatchLoop(d, user_links, i, faults, visited) ==
    IF i > Len(user_links) THEN [d |-> d, visited |-> visited, raised |-> ""]
    ELSE LET one == MatchOne(d, user_links[i], faults[i])
         IN  IF one.exc # ""
             THEN [d |-> one.d, visited |-> Append(visited, user_links[i].id), raised |-> one.exc]
             ELSE MatchLoop(one.d, user_links, i + 1, faults, Append(visited, user_links[i].id))

\* UserLink.objects.filter(user=user)
LinksOf(ls, pk) == SelectSeq(ls, LAMBDA row : row.user = pk)

SkillsOf(ss, pk) == SelectSeq(ss, LAMBDA row : row.user = pk)

match_link_to_brand(d, user_links, faults) == MatchLoop(d, user_links, 1, faults, <<>>)

-----------------------------------------------------------------------------
(* profile_settings *)

\* ProfileForm.is_valid
ProfileForm_is_valid(form) == form.first_name # "" /\ form.last_name # ""

\* BaseSkillFormSet / BaseLinkFormSet .is_valid: a row with exactly one of its two
\* fields filled is an error; a row with both empty is an unfilled extra form
FormSet_is_valid(formset, item_name, counterpart_name) ==
    \A i \in 1..Len(formset) :
        (formset[i][item_name] = EmptyOf(item_name))
            <=> (formset[i][counterpart_name] = EmptyOf(counterpart_name))

RowGo == [skill |-> "Go", proficiency |-> "expert"]
RowPy == [skill |-> "Py", proficiency |-> "beginner"]
RowNoSkill == [skill |-> "", proficiency |-> ""]
RowHalfSkill == [skill |-> "Go", proficiency |-> ""]

RowTwitter == [anchor |-> "site", url |-> UrlTwitter]
RowWww == [anchor |-> "blog", url |-> UrlWww]
RowNoLink == [anchor |-> "", url |-> NoUrl]
RowHalfLink == [anchor |-> "", url |-> UrlOther]

ValidProfile == [first_name |-> "Ann", last_name |-> "Lee", bio |-> "hi", roles |-> "dev"]

\* the profile submissions a request may carry
ProfileSubmissions ==
    {[form |-> ValidProfile, skill_formset |-> <<RowGo, RowNoSkill>>,
      link_formset |-> <<RowTwitter, RowWww>>],
     [form |-> ValidProfile, skill_formset |-> <<RowPy>>, link_formset |-> <<RowWww, RowNoLink>>],
     [form |-> ValidProfile, skill_formset |-> <<>>, link_formset |-> <<>>],
     [form |-> ValidProfile, skill_formset |-> <<RowHalfSkill>>, link_formset |-> <<RowTwitter>>],
     [form |-> [ValidProfile EXCEPT !.first_name = ""], skill_formset |-> <<RowGo>>,
      link_formset |-> <<RowTwitter>>]}

\* the fields profile_settings assigns before user.save()
ProfiledUser(user, form) ==
    [user EXCEPT !.first_name = form.first_name, !.last_name = form.last_name,
                 !.bio = form.bio, !.roles = form.roles]

profile_settings_view(d, client, method, form, skill_formset, link_formset, faults) ==
    LET pk == RequestUser(d, client)
        d0 == Op(d, "is_valid")
    IN  login_required(d, client,
          IF method = "POST"
          THEN IF /\ ProfileForm_is_valid(form)
                  /\ FormSet_is_valid(skill_formset, "skill", "proficiency")
                  /\ FormSet_is_valid(link_formset, "anchor", "url")
               THEN LET d1 == save_user(d0, pk, ProfiledUser(d.users[pk], form))
                        d2 == save_skills(d1, pk, skill_formset)
                        d3 == save_links(d2, pk, link_formset)
                        m == match_link_to_brand(d3, LinksOf(d3.links, pk), faults)
                    IN  [d |-> m.d, pk |-> pk,
                         outcome |-> IF m.raised = "" THEN "redirect:profile-settings"
                                     ELSE "500:match_link_to_brand",
                         valid |-> TRUE]
               ELSE [d |-> d0, pk |-> pk, outcome |-> "render:profile_settings", valid |-> FALSE]
          ELSE [d |-> d, pk |-> pk, outcome |-> "render:profile_settings", valid |-> FALSE])

profile_settings ==
    /\ clock < MaxRequests
    /\ \E client \in Clients, method \in Methods, sub \in ProfileSubmissions,
          faults \in [1..2 -> FaultKinds] :
          LET r == profile_settings_view(Ctx, client, method, sub.form, sub.skill_formset,
                                         sub.link_formset, faults)
          IN  Respond(r.d, "profile_settings", client, r.pk, method, r.outcome, r.valid,
                      <<>>, <<>>)
    /\ clock' = clock + 1
    /\ UNCHANGED inflight

-----------------------------------------------------------------------------
(* update_account *)

AccountSettingsForms == [email : Emails \cup {"not-an-email"}, reset_password : {"", "newpass1"}]

\* AccountSettingsForm.is_valid: a well-formed email that no other account holds
AccountSettingsForm_is_valid(us, pk, form) ==
    /\ form.email \in Emails
    /\ \A other \in 1..Len(us) : other # pk => us[other].email # form.email

\* mutant: a settings update also re-opens the activation token
UpdatedUserReopened(user, form) ==
    [user EXCEPT !.email = form.email, !.auth_token_is_used = FALSE,
                 !.password = IF form.reset_password # ""
                              THEN make_password(form.reset_password) ELSE @]

\* the fields update_account assigns before user.save()
UpdatedUser(user, form) ==
    [user EXCEPT !.email = form.email,
                 !.password = IF form.reset_password # ""
                              THEN make_password(form.reset_password) ELSE @]

update_account_view(d, client, method, form) ==
    LET pk == RequestUser(d, client)
    IN  login_required(d, client,
          IF method = "POST"
          THEN IF AccountSettingsForm_is_valid(d.users, pk, form)
               THEN [d |-> save_user(Op(d, "is_valid"), pk, UpdatedUser(d.users[pk], form)),
                     pk |-> pk, outcome |-> "redirect:account-settings", valid |-> TRUE]
               ELSE [d |-> Op(d, "is_valid"), pk |-> pk, outcome |-> "render:account_settings",
                     valid |-> FALSE]
          ELSE [d |-> d, pk |-> pk, outcome |-> "403:PermissionDenied", valid |-> FALSE])

update_account ==
    /\ clock < MaxRequests
    /\ \E client \in Clients, method \in Methods, form \in AccountSettingsForms :
          LET r == update_account_view(Ctx, client, method, form)
          IN  Respond(r.d, "update_account", client, r.pk, method, r.outcome, r.valid,
                      <<>>, <<>>)
    /\ clock' = clock + 1
    /\ UNCHANGED inflight

-----------------------------------------------------------------------------
(* close_account *)

CloseAccountForms == [password : {"secret123", "wrong"}]

\* CloseAccountForm.is_valid: the account's password re-entered
CloseAccountForm_is_valid(user, form) == check_password(form.password, user.password)

\* the fields close_account assigns before user.save()
ClosedUser(user) == [user EXCEPT !.is_active = FALSE, !.is_closed = TRUE]

\* mutant: the session is terminated before the account is saved
LogoutThenSave(d, client, pk, obj) == save_user(logout(d, client), pk, obj)

\* user.save(); logout(request)
CloseSave(d, client, pk, obj) == logout(save_user(d, pk, obj), client)

close_account_view(d, client, method, form) ==
    LET pk == RequestUser(d, client)
    IN  login_required(d, client,
          IF method = "POST"
          THEN IF CloseAccountForm_is_valid(d.users[pk], form)
               THEN [d |-> CloseSave(Op(d, "is_valid"), client, pk, ClosedUser(d.users[pk])),
                     pk |-> pk, outcome |-> "redirect:close-account-done", valid |-> TRUE]
               ELSE [d |-> Op(d, "is_valid"), pk |-> pk, outcome |-> "render:account_settings",
                     valid |-> FALSE]
          ELSE [d |-> d, pk |-> pk, outcome |-> "403:PermissionDenied", valid |-> FALSE])

close_account ==
    /\ clock < MaxRequests
    /\ \E client \in Clients, method \in Methods, form \in CloseAccountForms :
          LET r == close_account_view(Ctx, client, method, form)
          IN  Respond(r.d, "close_account", client, r.pk, method, r.outcome, r.valid,
                      <<>>, <<>>)
    /\ clock' = clock + 1
    /\ UNCHANGED inflight

-----------------------------------------------------------------------------
(* Spec: requests handled whole, one at a time *)

Next ==
    \/ request_invitation
    \/ activate_account
    \/ profile_settings
    \/ update_account
    \/ close_account

Spec == Init /\ [][Next]_vars

-----------------------------------------------------------------------------
(* SpecFn: save_skills, save_links and match_link_to_brand applied as functions *)

\* the accounts the functions are applied for
FnUsers == {1, 2}

FnSkillRows == {RowGo, RowNoSkill, RowHalfSkill}

FnLinkRows == {RowTwitter, RowWww, RowNoLink, RowHalfLink}

apply_save_skills ==
    /\ clock < MaxFnSteps
    /\ \E pk \in FnUsers, formset \in SeqsUpTo(FnSkillRows, MaxFnRows) :
          Respond(save_skills(Ctx, pk, formset), "save_skills", "", pk, "", "returned",
                  TRUE, formset, <<>>)
    /\ clock' = clock + 1
    /\ UNCHANGED inflight

apply_save_links ==
    /\ clock < MaxFnSteps
    /\ \E pk \in FnUsers, formset \in SeqsUpTo(FnLinkRows, MaxFnRows) :
          Respond(save_links(Ctx, pk, formset), "save_links", "", pk, "", "returned",
                  TRUE, formset, <<>>)
    /\ clock' = clock + 1
    /\ UNCHANGED inflight

apply_match_link_to_brand ==
    /\ clock < MaxFnSteps
    /\ \E pk \in FnUsers : \E faults \in [1..Len(LinksOf(links, pk)) -> FaultKinds] :
          LET m == match_link_to_brand(Ctx, LinksOf(links, pk), faults)
          IN  Respond(m.d, "match_link_to_brand", "", pk, "",
                      IF m.raised = "" THEN "returned" ELSE "raised", TRUE,
                      <<faults>>, m.visited)
    /\ clock' = clock + 1
    /\ UNCHANGED inflight

NextFn ==
    \/ apply_save_skills
    \/ apply_save_links
    \/ apply_match_link_to_brand

InitFn == Init /\ \A pk \in 1..Len(users) : users[pk].is_active

SpecFn == InitFn /\ [][NextFn]_vars

-----------------------------------------------------------------------------
(* SpecConc: overlapping requests. A request that writes is a chain of steps,   *)
(* one per database statement; requests that write nothing answer at once.     *)

Free(r) == inflight[r].pc \in {"idle", "done"}

NoSubmission == [form |-> ValidProfile, skill_formset |-> <<>>, link_formset |-> <<>>]

Flight(pc, view, client, pk, obj, raw, sub) ==
    [pc |-> pc, view |-> view, client |-> client, pk |-> pk, obj |-> obj, raw |-> raw,
     sub |-> sub]

NoFaults == [i \in 1..2 |-> "none"]

\* activate_account up to the assignments of lines 95-101: the user object is
\* loaded, the used flag tested and the form validated; user.save() is yet to run
activate_begin(r) ==
    /\ Free(r)
    /\ clock < MaxRequests
    /\ \E client \in Clients, token \in TokenInputs(users), post \in ActivationPosts :
          LET pk == get_object_or_404(users, token)
              saves == /\ pk # NoUser
                       /\ TokenUsable(users[pk])
                       /\ post.present
                       /\ ActivateAccountForm_is_valid(post)
              r0 == activate_account_view(Ctx, client, token, post, clock + 1)
          IN  IF saves
              THEN /\ inflight' = [inflight EXCEPT ![r] =
                          Flight("save", "activate_account", client, pk,
                                 ActivatedUser(users[pk], post, clock + 1), post.password,
                                 NoSubmission)]
                   /\ UNCHANGED <<users, skills, links, sessions, nextId, activations, last>>
              ELSE /\ Respond(r0.d, "activate_account", client, r0.pk,
                              IF post.present THEN "POST" ELSE "GET", r0.outcome, r0.valid,
                              <<>>, <<>>)
                   /\ UNCHANGED inflight
    /\ clock' = clock + 1

\* lines 102-110: user.save(), authenticate, login, redirect
activate_save(r) ==
    /\ inflight[r].pc = "save"
    /\ LET f == inflight[r]
           res == ActivateSave(Ctx, f.client, f.pk, f.obj, f.raw)
       IN  /\ Respond(res.d, "activate_account", f.client, f.pk, "POST", res.outcome, TRUE,
                      <<>>, <<>>)
           /\ inflight' = [inflight EXCEPT ![r].pc = "done"]
    /\ UNCHANGED clock

ConcSubmissions ==
    {[form |-> ValidProfile, skill_formset |-> <<RowGo, RowNoSkill>>,
      link_formset |-> <<RowTwitter>>],
     [form |-> ValidProfile, skill_formset |-> <<RowPy>>, link_formset |-> <<RowWww>>],
     [form |-> ValidProfile, skill_formset |-> <<RowHalfSkill>>, link_formset |-> <<>>]}

\* profile_settings up to user.save() (line 166)
profile_begin(r) ==
    /\ Free(r)
    /\ clock < MaxRequests
    /\ \E client \in Clients, sub \in ConcSubmissions :
          LET pk == RequestUser(Ctx, client)
              saves == /\ pk # NoUser
                       /\ ProfileForm_is_valid(sub.form)
                       /\ FormSet_is_valid(sub.skill_formset, "skill", "proficiency")
                       /\ FormSet_is_valid(sub.link_formset, "anchor", "url")
              r0 == profile_settings_view(Ctx, client, "POST", sub.form, sub.skill_formset,
                                          sub.link_formset, NoFaults)
          IN  IF saves
              THEN /\ Commit(save_user(Ctx, pk, ProfiledUser(users[pk], sub.form)))
                   /\ inflight' = [inflight EXCEPT ![r] =
                          Flight("delete_skills", "profile_settings", client, pk,
                                 users[pk], "", sub)]
                   /\ UNCHANGED last
              ELSE /\ Respond(r0.d, "profile_settings", client, r0.pk, "POST", r0.outcome,
                              r0.valid, <<>>, <<>>)
                   /\ UNCHANGED inflight
    /\ clock' = clock + 1

\* save_paired_items line 210 for UserSkill
profile_delete_skills(r) ==
    /\ inflight[r].pc = "delete_skills"
    /\ Commit(delete_for_user(Ctx, "UserSkill", inflight[r].pk))
    /\ inflight' = [inflight EXCEPT ![r].pc = "create_skills"]
    /\ UNCHANGED <<clock, last>>

\* save_paired_items line 211 for UserSkill
profile_create_skills(r) ==
    /\ inflight[r].pc = "create_skills"
    /\ Commit(bulk_create(Ctx, "UserSkill",
                          PairedItems(inflight[r].pk, inflight[r].sub.skill_formset,
                                      "UserSkill", "skill", "proficiency")))
    /\ inflight' = [inflight EXCEPT ![r].pc = "delete_links"]
    /\ UNCHANGED <<clock, last>>

\* save_paired_items line 210 for UserLink
profile_delete_links(r) ==
    /\ inflight[r].pc = "delete_links"
    /\ Commit(delete_for_user(Ctx, "UserLink", inflight[r].pk))
    /\ inflight' = [inflight EXCEPT ![r].pc = "create_links"]
    /\ UNCHANGED <<clock, last>>

\* save_paired_items line 211 for UserLink
profile_create_links(r) ==
    /\ inflight[r].pc = "create_links"
    /\ Commit(bulk_create(Ctx, "UserLink",
                          PairedItems(inflight[r].pk, inflight[r].sub.link_formset,
                                      "UserLink", "anchor", "url")))
    /\ inflight' = [inflight EXCEPT ![r].pc = "match"]
    /\ UNCHANGED <<clock, last>>

\* lines 171-175: the links are read back, matched to brands, and the redirect sent
profile_match(r) ==
    /\ inflight[r].pc = "match"
    /\ LET f == inflight[r]
           m == match_link_to_brand(Ctx, LinksOf(links, f.pk), NoFaults)
       IN  Respond(m.d, "profile_settings", f.client, f.pk, "POST",
                   "redirect:profile-settings", TRUE, <<>>, <<>>)
    /\ inflight' = [inflight EXCEPT ![r].pc = "done"]
    /\ UNCHANGED clock

NextConc ==
    \/ request_invitation
    \/ \E r \in 1..MaxInflight : activate_begin(r)
    \/ \E r \in 1..MaxInflight : activate_save(r)
    \/ \E r \in 1..MaxInflight : profile_begin(r)
    \/ \E r \in 1..MaxInflight : profile_delete_skills(r)
    \/ \E r \in 1..MaxInflight : profile_create_skills(r)
    \/ \E r \in 1..MaxInflight : profile_delete_links(r)
    \/ \E r \in 1..MaxInflight : profile_create_links(r)
    \/ \E r \in 1..MaxInflight : profile_match(r)

SpecConc == Init /\ [][NextConc]_vars

-----------------------------------------------------------------------------
(* Properties of Spec *)

Handled(view) == clock' = clock + 1 /\ last'.view = view

Precedes(ops, a, b) ==
    \E i \in 1..Len(ops) : ops[i] = a /\ \A j \in 1..Len(ops) : ops[j] = b => i < j

\* C1: over every sequence of requests the token-used flag of an account never
\* changes from true back to false (so it turns true at most once), and the account
\* stays in the table.
TokenUsedNeverReverts ==
    [][\A pk \in 1..Len(users) :
          users[pk].auth_token_is_used
              => pk <= Len(users') /\ users'[pk].auth_token_is_used]_vars

\* C1 witness: an account activated through its token was later changed by a
\* settings update and its flag is still true.
TokenUsedThenUpdated ==
    /\ last.view = "update_account"
    /\ last.outcome = "redirect:account-settings"
    /\ last.user \in Range(activations)
    /\ users[last.user].auth_token_is_used

\* C2: an activate request whose token belongs to an account with the token-used
\* flag already true changes no account and no session, answers with the
\* token-is-used page, and runs no form validation (no side effect at all),
\* whatever the submitted fields are.
UsedTokenIsRejectedUnchanged ==
    [][(/\ Handled("activate_account")
        /\ last'.user # NoUser
        /\ users[last'.user].auth_token_is_used)
          => /\ users' = users
             /\ sessions' = sessions
             /\ activations' = activations
             /\ last'.outcome = "render:activate_account:token_is_used"
             /\ last'.ops = <<>>]_vars

\* C2 witness: valid fields were posted with the token of an account this workflow
\* had activated, and the answer was the token-is-used page.
UsedTokenPostedValidFields ==
    /\ last.view = "activate_account"
    /\ last.outcome = "render:activate_account:token_is_used"
    /\ last.method = "POST"
    /\ last.valid
    /\ last.user \in Range(activations)

-----------------------------------------------------------------------------
(* Properties of SpecFn *)

\* the (item, counterpart) pairs of a table's rows for one user
PairsOf(rows, item_name, counterpart_name) ==
    [i \in 1..Len(rows) |-> <<rows[i][item_name], rows[i][counterpart_name]>>]

Count(seq, v) == Cardinality({i \in 1..Len(seq) : seq[i] = v})

Ids(rows) == {rows[i].id : i \in 1..Len(rows)}

\* after save_paired_items for pk with formset: every pair occurs among pk's rows as
\* often as it occurs among the formset's rows if both its fields are non-empty and
\* not at all otherwise, no row of pk carries the id of a row that existed before,
\* and the rows of other users are as before
Replaced(before, after, pk, formset, item_name, counterpart_name) ==
    LET mine == SelectSeq(after, LAMBDA row : row.user = pk)
        stored == PairsOf(mine, item_name, counterpart_name)
        given == PairsOf(formset, item_name, counterpart_name)
    IN  /\ \A v \in Range(stored) \cup Range(given) :
              Count(stored, v) = IF v[1] # EmptyOf(item_name) /\ v[2] # EmptyOf(counterpart_name)
                                 THEN Count(given, v) ELSE 0
        /\ Ids(mine) \cap Ids(before) = {}
        /\ SelectSeq(after, LAMBDA row : row.user # pk)
               = SelectSeq(before, LAMBDA row : row.user # pk)

\* C4: after save_skills (save_links) for an account, the account's skill (link)
\* records are exactly those built from the submitted rows with both fields
\* non-empty; rows with one or both fields empty give no record; none of the
\* records the account had before remains; other accounts' records are untouched.
SaveKeepsExactlyTheCompleteRows ==
    [][/\ Handled("save_skills")
          => Replaced(skills, skills', last'.user, last'.input, "skill", "proficiency")
       /\ Handled("save_links")
          => Replaced(links, links', last'.user, last'.input, "anchor", "url")]_vars

\* C4 witness: a formset with a half-filled row and a complete row was saved over an
\* earlier record of the same account, and one new record is stored.
HalfRowDroppedOldRowReplaced ==
    /\ last.view = "save_skills"
    /\ RowHalfSkill \in Range(last.input)
    /\ RowGo \in Range(last.input)
    /\ Len(SkillsOf(skills, last.user)) = 1
    /\ SkillsOf(skills, last.user)[1].id > 1

\* C5 as stated: after any reconciliation an account holds at most one
\* SkillAssignment per skill, whatever row-set reached save_skills.
AtMostOneAssignmentPerSkill ==
    \A i, j \in 1..Len(skills) :
        (i # j /\ skills[i].user = skills[j].user) => skills[i].skill # skills[j].skill

-----------------------------------------------------------------------------
(* Properties of SpecConc *)

\* C3 as stated: over any interleaving of activate requests, at most one request
\* performs the activation update of an account.
ActivatedAtMostOnce ==
    \A i, j \in 1..Len(activations) : i # j => activations[i] # activations[j]

CompleteRows(formset, item_name, counterpart_name) ==
    SelectSeq(PairsOf(formset, item_name, counterpart_name),
              LAMBDA v : v[1] # EmptyOf(item_name) /\ v[2] # EmptyOf(counterpart_name))

\* C10 as stated: once two profile saves of the same account have both completed,
\* the account's skill records are the filtered rows of one of the two submissions,
\* and so are its link records.
SavesLeaveOneSubmission ==
    \A r1, r2 \in 1..MaxInflight :
        (/\ r1 # r2
         /\ inflight[r1].pc = "done" /\ inflight[r1].view = "profile_settings"
         /\ inflight[r2].pc = "done" /\ inflight[r2].view = "profile_settings"
         /\ inflight[r1].pk = inflight[r2].pk)
          => LET pk == inflight[r1].pk
             IN  /\ \E r \in {r1, r2} :
                       PairsOf(SkillsOf(skills, pk), "skill", "proficiency")
                           = CompleteRows(inflight[r].sub.skill_formset, "skill", "proficiency")
                 /\ \E r \in {r1, r2} :
                       PairsOf(LinksOf(links, pk), "anchor", "url")
                           = CompleteRows(inflight[r].sub.link_formset, "anchor", "url")

=============================================================================
